---- MODULE Spec2Model ----
(***************************************************************************)
(* Model of the normalisation core of inv-po-compare:                      *)
(*   src/utils/gemini_processor.py  (class GeminiProcessor)                *)
(*                                                                         *)
(* JSON values are tagged records: Null, Num(n), Str, List(seq); a dict is *)
(* a TLA+ record whose DOMAIN is the set of keys that are present.         *)
(*                                                                         *)
(* Numbers.  Python floats are modelled as fixed-point decimals with four  *)
(* decimal places: Num(n) stands for n / Scale (Num(3300) is 0.33).  The   *)
(* field units is a plain count (Num(30) is 30).  All inputs are amounts   *)
(* in whole cents and rates with at most two decimals once expressed as a  *)
(* fraction, so every product below is exact at four decimals.             *)
(***************************************************************************)
EXTENDS Integers, Sequences, FiniteSets, TLC

VARIABLES
  model,          \* self.model: the model client, Null when __init__ failed
  original_data,  \* self._original_data
  document_data,  \* the extraction bundle of the request
  response,       \* what generate_content and json.loads make of the request
  response_text,  \* the text of the response, a sequence of characters
  json_text,      \* the local json_text of _parse_gemini_response
  composition,    \* how response_text was put together (payload, fences, blanks)
  result,         \* the mapping returned to the caller
  calls,          \* calls of generate_content made by the last invocation
  trace,          \* the stages run so far, in the order they were run
  invoice_extracted,   \* app_comparison.py: the locals of the pipeline
  po_extracted,
  invoice_structured,
  po_structured,
  comparison_result,
  pc,
  shown           \* what the page shows, in the order it was rendered

\* the locals of the pipeline of app_comparison.py
pipeline == <<invoice_extracted, po_extracted, invoice_structured, po_structured,
              comparison_result>>

vars == <<model, original_data, document_data, response, response_text, json_text,
          composition, result, calls, trace, pipeline, pc, shown>>

----------------------------------------------------------------------------
(* Values *)

Scale == 100 * 100

Null == [t |-> "null"]

Num(n) == [t |-> "num", v |-> n]

Str == [t |-> "str"]

List(s) == [t |-> "list", v |-> s]

IsNum(x) == x.t = "num"

\* Python truthiness of a value: None, 0 and the empty list are falsy.
Truthy(x) ==
  CASE x.t = "null" -> FALSE
    [] x.t = "num" -> x.v # 0
    [] x.t = "list" -> Len(x.v) > 0
    [] OTHER -> TRUE

\* Python `a or b`
Or(a, b) == IF Truthy(a) THEN a ELSE b

\* dict[key] = value
Put(d, k, val) == [x \in DOMAIN d \cup {k} |-> IF x = k THEN val ELSE d[x]]

\* s[:n]
TakeAll(s, n) == s

Take(s, n) == SubSeq(s, 1, IF Len(s) < n THEN Len(s) ELSE n)

\* Abs on fixed-point numbers
Abs(n) == IF n < 0 THEN -n ELSE n

\* a * b / Scale for fixed-point a, b >= 0, split so that no intermediate
\* product leaves the 32-bit range.
MulFixed(a, b) == (a \div Scale) * b + ((a % Scale) * b) \div Scale

\* Python round(x, 2): to the nearest cent, ties to the even cent.
Round2(x) ==
  LET q == x \div 100
      r == x % 100
  IN  IF r < 50 THEN q * 100
      ELSE IF r > 50 THEN (q + 1) * 100
      ELSE IF q % 2 = 0 THEN q * 100 ELSE (q + 1) * 100

----------------------------------------------------------------------------
(* _post_process_financial_data, lines 337-367: one line item.             *)
(* ReconcileItem gives the item as the loop body leaves it and what it     *)
(* adds to calculated_subtotal and calculated_tax_total.                   *)

ItemGet(item, k) == Or(IF k \in DOMAIN item THEN item[k] ELSE Num(0), Num(0))

NormalizeRateAlwaysDiv(tax_rate) == tax_rate \div 100

\* lines 350-353: a tax_rate above 1 is a percentage

NormalizeRate(tax_rate) == IF tax_rate > Scale THEN tax_rate \div 100 ELSE tax_rate

LineTotalOmitTax(subtotal, tax_amount) == subtotal

\* lines 364-365
LineTotal(subtotal, tax_amount) == Round2(subtotal + tax_amount)

\* line 343: the guard of the recomputation
BillableIgnoreUnits(units, unit_price) == unit_price > 0

BillableIgnorePrice(units, unit_price) == units > 0

Billable(units, unit_price) == units > 0 /\ unit_price > 0

\* the operands of `>` that raise TypeError, in evaluation order
ItemFaults(item) ==
  LET units == ItemGet(item, "units")
      unit_price == ItemGet(item, "unit_price")
      tax_rate == ItemGet(item, "tax_rate")
  IN  \/ ~IsNum(units)
      \/ units.v > 0 /\ ~IsNum(unit_price)
      \/ units.v > 0 /\ unit_price.v > 0 /\ ~IsNum(tax_rate)

ReconcileItem(item) ==
  LET units == ItemGet(item, "units")
      unit_price == ItemGet(item, "unit_price")
      tax_rate == ItemGet(item, "tax_rate")
  IN  IF Billable(units.v, unit_price.v)
      THEN LET subtotal == units.v * unit_price.v
           IN  IF tax_rate.v > 0
               THEN LET rate == NormalizeRate(tax_rate.v)
                        tax_amount == MulFixed(subtotal, rate)
                        item1 == Put(Put(item, "tax_amount", Num(Round2(tax_amount))),
                                     "tax_rate", Num(rate))
                    IN  [item |-> Put(item1, "total_value",
                                      Num(LineTotal(subtotal, item1.tax_amount.v))),
                         subtotal |-> subtotal,
                         tax |-> tax_amount]
               ELSE LET item1 == Put(Put(item, "tax_amount", Num(0)), "tax_rate", Num(0))
                    IN  [item |-> Put(item1, "total_value",
                                      Num(LineTotal(subtotal, item1.tax_amount.v))),
                         subtotal |-> subtotal,
                         tax |-> 0]
      ELSE [item |-> item, subtotal |-> 0, tax |-> 0]

----------------------------------------------------------------------------
(* _post_process_financial_data, lines 309-389: one document.              *)

SumSeqLast(s) == IF s = <<>> THEN 0 ELSE s[Len(s)]

\* the running sums of lines 334-335, 346 and 356
RECURSIVE SumSeq(_)
SumSeq(s) == IF s = <<>> THEN 0 ELSE Head(s) + SumSeq(Tail(s))

\* lines 303-307: original_financial_info, {} unless the stored bundle is a
\* non-empty mapping
OriginalFinancialInfo(orig) ==
  IF orig # Null /\ DOMAIN orig # {}
  THEN IF "financial_info" \in DOMAIN orig THEN orig.financial_info ELSE <<>>
  ELSE <<>>

\* lines 316-331: document_total, document_subtotal, document_tax_total
FinAmount(fin, key) ==
  IF DOMAIN fin # {} /\ key \in DOMAIN fin
  THEN IF "amount" \in DOMAIN fin[key] THEN fin[key].amount ELSE Num(0)
  ELSE Null

UseOriginalNonZero(document_total, calculated_total) ==
  Truthy(document_total) /\ Abs(document_total.v - calculated_total) > 0

\* line 374: the condition under which the original totals are recorded
UseOriginal(document_total, calculated_total) ==
  Truthy(document_total) /\ Abs(document_total.v - calculated_total) > Scale

DocumentTotalsSwapped(document_total, document_subtotal, document_tax_total, calculated_subtotal, calculated_tax_total) ==
  IF UseOriginal(document_total, calculated_subtotal + calculated_tax_total)
  THEN [subtotal |-> Or(document_tax_total, Num(calculated_subtotal)),
        tax_total |-> Or(document_subtotal, Num(calculated_tax_total)),
        total |-> document_total,
        original_data_used |-> TRUE]
  ELSE [subtotal |-> Num(calculated_subtotal),
        tax_total |-> Num(calculated_tax_total),
        total |-> Num(calculated_subtotal + calculated_tax_total),
        original_data_used |-> FALSE]

\* lines 374-389: the document_totals entry
DocumentTotals(document_total, document_subtotal, document_tax_total, calculated_subtotal, calculated_tax_total) ==
  IF UseOriginal(document_total, calculated_subtotal + calculated_tax_total)
  THEN [subtotal |-> Or(document_subtotal, Num(calculated_subtotal)),
        tax_total |-> Or(document_tax_total, Num(calculated_tax_total)),
        total |-> document_total,
        original_data_used |-> TRUE]
  ELSE [subtotal |-> Num(calculated_subtotal),
        tax_total |-> Num(calculated_tax_total),
        total |-> Num(calculated_subtotal + calculated_tax_total),
        original_data_used |-> FALSE]

DocFaults(doc) ==
  "line_items" \in DOMAIN doc /\
    \/ doc.line_items.t # "list"
    \/ \E i \in 1..Len(doc.line_items.v) : ItemFaults(doc.line_items.v[i])

ReconcileDoc(doc, fin) ==
  IF "line_items" \notin DOMAIN doc THEN doc
  ELSE
    LET items == doc.line_items.v
        rec == [i \in 1..Len(items) |-> ReconcileItem(items[i])]
        document_total == FinAmount(fin, "total")
        document_subtotal == FinAmount(fin, "subtotal")
        document_tax_total == FinAmount(fin, "total_tax")
        calculated_subtotal == SumSeq([i \in 1..Len(items) |-> rec[i].subtotal])
        calculated_tax_total == SumSeq([i \in 1..Len(items) |-> rec[i].tax])
        doc1 == Put(doc, "line_items", List([i \in 1..Len(items) |-> rec[i].item]))
    IN  Put(doc1, "document_totals",
            DocumentTotals(document_total, document_subtotal, document_tax_total,
                           calculated_subtotal, calculated_tax_total))

----------------------------------------------------------------------------
(* _post_process_financial_data, lines 294-391: the whole payload.         *)

IsDict(x) == "t" \notin DOMAIN x

\* the payloads on which the Reconciler raises (TypeError / AttributeError)
PostProcessFaults(structured_data) ==
  "documents" \in DOMAIN structured_data /\
    \/ structured_data.documents.t # "list"
    \/ \E i \in 1..Len(structured_data.documents.v) :
         DocFaults(structured_data.documents.v[i])

PostProcessFirstDocument(structured_data, orig) ==
  IF "documents" \notin DOMAIN structured_data THEN structured_data
  ELSE
    LET docs == structured_data.documents.v
        fin == OriginalFinancialInfo(orig)
    IN  Put(structured_data, "documents",
            List([i \in 1..(IF docs = <<>> THEN 0 ELSE 1) |-> ReconcileDoc(docs[i], fin)]))

_post_process_financial_data(structured_data, orig) ==
  IF "documents" \notin DOMAIN structured_data THEN structured_data
  ELSE
    LET docs == structured_data.documents.v
        fin == OriginalFinancialInfo(orig)
    IN  Put(structured_data, "documents",
            List([i \in 1..Len(docs) |-> ReconcileDoc(docs[i], fin)]))

----------------------------------------------------------------------------
(* _parse_gemini_response, lines 215-292, from json.loads on.  resp is the  *)
(* outcome of json.loads on the sliced text: "malformed" (JSONDecodeError)  *)
(* or "json" with the parsed value; text is response_text.                  *)

\* lines 284 and 291: the length of the excerpt of response_text returned
RawResponseLimit == 1000

_parse_gemini_response(text, resp, orig) ==
  IF resp.kind = "malformed"
  THEN [success |-> FALSE, error |-> "Invalid JSON response from Gemini: str(e)",
        raw_response |-> Take(text, RawResponseLimit)]
  ELSE IF ~IsDict(resp.payload) \/ PostProcessFaults(resp.payload)
  THEN [success |-> FALSE, error |-> "str(e)",
        raw_response |-> Take(text, RawResponseLimit)]
  ELSE [success |-> TRUE,
        data |-> _post_process_financial_data(resp.payload, orig),
        raw_response_length |-> Len(text)]

\* the stages _parse_gemini_response runs: json.loads (line 260), then .keys()
\* (line 262), then the Reconciler (line 265)
ParseStages(resp) ==
  <<"json.loads">> \o
  (IF resp.kind = "json" /\ IsDict(resp.payload)
   THEN <<"_post_process_financial_data">> ELSE <<>>)

----------------------------------------------------------------------------
(* _parse_gemini_response, lines 223-254: from response_text to json_text.  *)
(* A text is a sequence of characters, each a one-character string; the     *)
(* backtick is written "tick".                                               *)

Whitespace == {" ", "\n"}

Fence == <<"tick", "tick", "tick">>

FenceJson == <<"tick", "tick", "tick", "j", "s", "o", "n">>

RECURSIVE LStrip(_)
LStrip(s) == IF s # <<>> /\ Head(s) \in Whitespace THEN LStrip(Tail(s)) ELSE s

RECURSIVE RStrip(_)
RStrip(s) ==
  IF s # <<>> /\ s[Len(s)] \in Whitespace THEN RStrip(SubSeq(s, 1, Len(s) - 1)) ELSE s

\* str.strip()
Strip(s) == RStrip(LStrip(s))

StartsWith(s, prefix) == Len(s) >= Len(prefix) /\ SubSeq(s, 1, Len(prefix)) = prefix

EndsWith(s, suffix) ==
  Len(s) >= Len(suffix) /\ SubSeq(s, Len(s) - Len(suffix) + 1, Len(s)) = suffix

\* s[n:]
Drop(s, n) == SubSeq(s, n + 1, Len(s))

\* str.split('\n')
RECURSIVE Split(_)
Split(s) ==
  IF \E i \in 1..Len(s) : s[i] = "\n"
  THEN LET i == CHOOSE i \in 1..Len(s) : s[i] = "\n" /\ \A j \in 1..(i - 1) : s[j] # "\n"
       IN  <<SubSeq(s, 1, i - 1)>> \o Split(Drop(s, i))
  ELSE <<s>>

\* '\n'.join(lines)
RECURSIVE Join(_)
Join(lines) ==
  IF lines = <<>> THEN <<>>
  ELSE IF Len(lines) = 1 THEN lines[1]
  ELSE lines[1] \o <<"\n">> \o Join(Tail(lines))

OpeningFenceCut3(cleaned_response) ==
  IF StartsWith(cleaned_response, Fence) THEN Drop(cleaned_response, 3)
  ELSE cleaned_response

\* lines 227-230: remove the opening fence
OpeningFence(cleaned_response) ==
  IF StartsWith(cleaned_response, FenceJson) THEN Drop(cleaned_response, 7)
  ELSE IF StartsWith(cleaned_response, Fence) THEN Drop(cleaned_response, 3)
  ELSE cleaned_response

ClosingFenceAlways(cleaned_response) ==
  SubSeq(cleaned_response, 1, Len(cleaned_response) - 3)

\* lines 232-233: remove the closing fence
ClosingFence(cleaned_response) ==
  IF EndsWith(cleaned_response, Fence)
  THEN SubSeq(cleaned_response, 1, Len(cleaned_response) - 3)
  ELSE cleaned_response

\* lines 224-233
CleanedResponse(text) == ClosingFence(OpeningFence(Strip(text)))

StartIdxZero(lines) == 0

\* lines 237-244: index (from 0) of the first line that starts with "{"
StartIdx(lines) ==
  IF \E i \in 1..Len(lines) : StartsWith(Strip(lines[i]), <<"{">>)
  THEN (CHOOSE i \in 1..Len(lines) :
          /\ StartsWith(Strip(lines[i]), <<"{">>)
          /\ \A j \in 1..(i - 1) : ~StartsWith(Strip(lines[j]), <<"{">>)) - 1
  ELSE 0

\* lines 238-250: one past the index of the last line that ends with "}"
EndIdx(lines) ==
  IF \E i \in 1..Len(lines) : EndsWith(Strip(lines[i]), <<"}">>)
  THEN CHOOSE i \in 1..Len(lines) :
          /\ EndsWith(Strip(lines[i]), <<"}">>)
          /\ \A j \in (i + 1)..Len(lines) : ~EndsWith(Strip(lines[j]), <<"}">>)
  ELSE Len(lines)

\* lines 236-254
JsonText(text) ==
  LET lines == Split(CleanedResponse(text))
  IN  Strip(Join(SubSeq(lines, StartIdx(lines) + 1, EndIdx(lines))))

----------------------------------------------------------------------------
(* Inputs: the extraction bundles and the model responses the pipeline is  *)
(* run on.                                                                 *)

MaxDocs == 2

MaxItems == 2

Item(units, unit_price, tax_rate, tax_amount, total_value) ==
  [product_number |-> Str, units |-> units, unit_price |-> unit_price,
   tax_rate |-> tax_rate, tax_amount |-> tax_amount, total_value |-> total_value]

\* units and unit_price positive: tax_rate a fraction, a percentage, a
\* percentage above 100, absent, negative; the totals supplied are wrong
PositiveItems ==
  {Item(Num(1), Num(3300), r, Num(50000), Num(70000)) :
     r \in {Num(1800), Num(180000), Num(1250000)}}
  \cup {Item(Num(2), Num(10000), Null, Null, Null),
        Item(Num(1), Num(10000), Num(-500), Num(10000), Num(20000))}

\* units or unit_price null, zero or negative
SkippedItems ==
  {Item(Num(0), Num(3300), Num(180000), Num(50000), Num(70000)),
   Item(Num(1), Null, Num(0), Null, Num(70000)),
   Item(Num(-1), Num(0), Null, Null, Num(70000))}

Items == PositiveItems \cup SkippedItems

\* a quantity, price or rate given as a string: `>` raises TypeError
FaultyItems ==
  {Item(Str, Num(3300), Num(1800), Null, Null),
   Item(Num(1), Str, Num(1800), Null, Null),
   Item(Num(1), Num(3300), Str, Null, Null)}

ItemSeqs(n) == UNION {[1..k -> Items] : k \in 0..n}

NumItems(doc) == IF "line_items" \in DOMAIN doc THEN Len(doc.line_items.v) ELSE 0

\* a document: without the line_items key, or with a list of at most n
\* line items
Docs(n) ==
  {[invoice_id |-> Str]}
  \cup {[invoice_id |-> Str, line_items |-> List(s)] : s \in ItemSeqs(n)}

\* sequences of k documents holding at most n line items together
RECURSIVE DocSeqs(_, _)
DocSeqs(k, n) ==
  IF k = 0 THEN {<<>>}
  ELSE UNION {{<<d>> \o rest : rest \in DocSeqs(k - 1, n - NumItems(d))} : d \in Docs(n)}

Payload(ds) == [document_type |-> Str, documents |-> List(ds)]

\* well-typed values of json.loads: an object without the documents key, or
\* with a list of documents
Payloads ==
  {[document_type |-> Str]}
  \cup {Payload(ds) : ds \in UNION {DocSeqs(k, MaxItems) : k \in 0..MaxDocs}}

\* the worked example of the structuring prompt (lines 155-161): 30 units
\* at 3389, tax_rate given as 18
ExampleItem == Item(Num(30), Num(3389 * Scale), Num(18 * Scale), Null, Null)

ExamplePayload == Payload(<<[invoice_id |-> Str, line_items |-> List(<<ExampleItem>>)]>>)

\* values of json.loads on which the code raises: a JSON array, documents
\* null, line_items null, a string where a number is compared
FaultyPayloads ==
  {List(<<>>),
   [document_type |-> Str, documents |-> Null],
   Payload(<<[invoice_id |-> Str, line_items |-> Null]>>)}
  \cup {Payload(<<[invoice_id |-> Str, line_items |-> List(<<g, f>>)]>>) :
          g \in PositiveItems, f \in FaultyItems}

Responses ==
  {[kind |-> "raises"], [kind |-> "malformed"]}
  \cup {[kind |-> "json", payload |-> p] : p \in Payloads \cup {ExamplePayload} \cup FaultyPayloads}

Amount(a) == [amount |-> a, currency |-> "INR"]

Fin(total, subtotal, total_tax) ==
  [total |-> Amount(total), subtotal |-> Amount(subtotal), total_tax |-> Amount(total_tax)]

\* financial_info as the extractors build it (pdf_extractor.py, 268-285):
\* empty, partial, or with the three amounts; an amount the extractor could
\* not read is 0
FinancialInfos ==
  {<<>>,
   [total |-> Amount(Num(50000))],
   [total |-> [currency |-> "INR"]],
   [subtotal |-> Amount(Num(40000)), total_tax |-> Amount(Num(10000))],
   Fin(Num(50000), Num(40000), Num(10000)),
   Fin(Num(50000), Num(0), Num(0)),
   Fin(Num(0), Num(40000), Num(10000)),
   Fin(Num(20000), Num(10000), Num(10000))}

Bundles ==
  {[file_name |-> "f"]}
  \cup {[file_name |-> "f", financial_info |-> fin] : fin \in FinancialInfos}

GenerativeModel == [t |-> "model"]

InitializedAlways(mdl) == TRUE

\* lines 28 and 397: `if not self.model` is not taken
Initialized(mdl) == Truthy(mdl)

----------------------------------------------------------------------------
(* GeminiProcessor *)

\* app_comparison.py, line 55: no file has been processed
PipelineNotStarted ==
  /\ invoice_extracted = Null
  /\ po_extracted = Null
  /\ invoice_structured = Null
  /\ po_structured = Null
  /\ comparison_result = Null

\* __init__, lines 8-19, and the request the pipeline is about to make
Init ==
  /\ composition = Null
  /\ response_text = <<>>
  /\ json_text = <<>>
  /\ original_data = Null
  /\ document_data \in Bundles
  /\ \/ model = GenerativeModel /\ response \in Responses
     \/ model = Null /\ response = Null
  /\ result = Null
  /\ calls = 0
  /\ trace = <<>>
  /\ PipelineNotStarted
  /\ shown = <<>>
  /\ pc = "idle"

\* structure_document_data, lines 21-72
structure_document_data ==
  /\ pc = "idle"
  /\ pc' = "returned"
  /\ IF ~Initialized(model)
     THEN /\ result' = [error |-> "Gemini API not initialized"]
          /\ original_data' = original_data
          /\ calls' = 0
          /\ trace' = trace
     ELSE /\ original_data' = document_data
          /\ calls' = 1
          /\ result' = IF response.kind = "raises"
                       THEN [error |-> "Failed to process with Gemini: str(e)"]
                       ELSE _parse_gemini_response(response_text, response, document_data)
          /\ trace' = trace \o <<"generate_content">> \o
                       (IF response.kind = "raises" THEN <<>> ELSE ParseStages(response))
  /\ UNCHANGED <<model, document_data, response, response_text, json_text, composition,
                 pipeline, shown>>

Next == structure_document_data

Spec == Init /\ [][Next]_vars

----------------------------------------------------------------------------
(* The Sanitizer on response texts: _parse_gemini_response from the text   *)
(* of the response on.                                                     *)

MaxBlanks == 1

\* runs of at most n blanks and newlines
Blanks(n) == UNION {[1..k -> Whitespace] : k \in 0..n}

\* texts of well-formed payloads: an object on one line or on several, with
\* inner lines that themselves open and close an object, and with fence
\* characters inside ("a" stands for any run of other characters)
PayloadTexts ==
  {<<"{", "}">>,
   <<"{", "a", "}">>,
   <<"{", "\n", "a", "\n", "}">>,
   <<"{", "\n", "{", "a", "}", "\n", "}">>,
   <<"{", "a", "\n", " ", "{", "}", "}">>,
   <<"{", "j", "s", "o", "n", "}">>,
   <<"{", "tick", "tick", "tick", "}">>}

\* texts json.loads rejects
MalformedTexts == {<<>>, <<"a">>, <<"{", "a">>, <<"a", "}">>}

\* texts json.loads rejects that are as long as the excerpt returned with a
\* failure, shorter by one and longer by one
LongTexts ==
  {[i \in 1..n |-> "a"] :
     n \in {RawResponseLimit - 1, RawResponseLimit, RawResponseLimit + 1}}

\* what the model writes before the payload despite the instructions:
\* nothing, a line of prose, a line of prose ending with "}", prose on the
\* line of the payload, a line that itself begins with "{"
Preambles ==
  {<<>>, <<"a", "\n">>, <<"a", "}", "\n">>, <<"a", " ">>, <<"{", "a", "\n">>}

\* and after the payload
Epilogues ==
  {<<>>, <<"\n", "a">>, <<"\n", "{", "a">>, <<" ", "a">>, <<"\n", "a", "}">>}

\* a payload between code fences, with blanks around
FencedCompositions ==
  [lead : Blanks(MaxBlanks), pre : {<<>>}, open : {<<>>, Fence, FenceJson},
   gap1 : Blanks(MaxBlanks), payload : PayloadTexts \cup MalformedTexts,
   gap2 : Blanks(MaxBlanks), close : {<<>>, Fence}, post : {<<>>},
   trail : Blanks(MaxBlanks)]

\* a payload without fences, with a preamble and an epilogue
SurroundedCompositions ==
  [lead : Blanks(MaxBlanks), pre : Preambles, open : {<<>>}, gap1 : {<<>>},
   payload : PayloadTexts \cup MalformedTexts,
   gap2 : {<<>>}, close : {<<>>}, post : Epilogues, trail : Blanks(MaxBlanks)]

\* a long text that is not JSON
LongCompositions ==
  [lead : Blanks(MaxBlanks), pre : {<<>>}, open : {<<>>}, gap1 : {<<>>},
   payload : LongTexts,
   gap2 : {<<>>}, close : {<<>>}, post : {<<>>}, trail : Blanks(MaxBlanks)]

Compositions == FencedCompositions \cup SurroundedCompositions \cup LongCompositions

Compose(c) ==
  c.lead \o c.pre \o c.open \o c.gap1 \o c.payload \o c.gap2 \o c.close \o c.post
    \o c.trail

\* the objects the texts of PayloadTexts are the serializations of: without
\* documents, with an empty list of documents, with a document without
\* line_items, with line items the Reconciler recomputes, and with a
\* document that is already reconciled
Parsed(text) ==
  CASE text = <<"{", "}">> -> [summary |-> Str]
    [] text = <<"{", "a", "}">> -> [document_type |-> Str]
    [] text = <<"{", "\n", "a", "\n", "}">> ->
         Payload(<<[invoice_id |-> Str,
                    line_items |-> List(<<Item(Num(2), Num(10000), Null, Null, Null)>>)]>>)
    [] text = <<"{", "\n", "{", "a", "}", "\n", "}">> -> Payload(<<[invoice_id |-> Str]>>)
    [] text = <<"{", "a", "\n", " ", "{", "}", "}">> ->
         Payload(<<[invoice_id |-> Str,
                    line_items |->
                      List(<<Item(Num(1), Num(3300), Num(180000), Num(50000), Num(70000))>>)]>>)
    [] text = <<"{", "j", "s", "o", "n", "}">> -> Payload(<<>>)
    [] text = <<"{", "tick", "tick", "tick", "}">> ->
         Payload(<<[invoice_id |-> Str,
                    line_items |->
                      List(<<Item(Num(2), Num(10000), Num(0), Num(0), Num(20000))>>),
                    document_totals |->
                      [subtotal |-> Num(20000), tax_total |-> Num(0),
                       total |-> Num(20000), original_data_used |-> FALSE]]>>)

\* a JSON string with its content: a word, or the characters of a product
\* number
Text(v) == [t |-> "str", v |-> v]

\* one side of a row of a comparison report: the figures of the line item
Side(units, unit_price, total_value) ==
  [units |-> Num(units), unit_price |-> Num(unit_price), total_value |-> Num(total_value)]

NoSide == [units |-> Null, unit_price |-> Null, total_value |-> Null]

\* a row of comparison_results as the prompt asks for it (lines 518-534)
Row(product_number, po, invoice, status) ==
  [product_number |-> Text(product_number),
   po_units |-> po.units, invoice_units |-> invoice.units,
   po_unit_price |-> po.unit_price, invoice_unit_price |-> invoice.unit_price,
   po_total_value |-> po.total_value, invoice_total_value |-> invoice.total_value,
   status |-> Text(status), discrepancy_details |-> Str]

\* the summary the prompt asks for (lines 536-542)
Summary(total, matched, mismatched, po_only, invoice_only) ==
  [total_items |-> Num(total), matched_items |-> Num(matched),
   mismatched_items |-> Num(mismatched), po_only_items |-> Num(po_only),
   invoice_only_items |-> Num(invoice_only)]

ProductVI == <<"V", "I", "-", "3", "4", "2", "3">>

Product == <<"3", "4", "2", "3">>

\* the comparison reports the model answers with: one row that matches and
\* one that does not, counted rightly ("m"); one row, counted as three ("s");
\* a row with prices 0.005 apart reported Mismatch and a row with prices
\* 0.02 apart reported Match ("t"); the items "VI-3423" of the invoice
\* and "3423" of the purchase order reported as two unmatched rows ("u");
\* and reports in the two older layouts display_comparison_results still
\* accepts: a markdown table of one item ("k"), a comparison_summary with
\* one discrepancy ("l")
Report(c) ==
  CASE c = "m" ->
         [comparison_results |->
            List(<<Row(Product, Side(2, 100000, 200000), Side(2, 100000, 200000), "Match"),
                   Row(<<"7">>, Side(1, 100000, 100000), Side(1, 120000, 120000),
                       "Mismatch")>>),
          summary |-> Summary(2, 1, 1, 0, 0)]
    [] c = "s" ->
         [comparison_results |->
            List(<<Row(Product, Side(2, 100000, 200000), Side(2, 100000, 200000),
                       "Match")>>),
          summary |-> Summary(3, 1, 1, 0, 1)]
    [] c = "t" ->
         [comparison_results |->
            List(<<Row(Product, Side(1, 100000, 100000), Side(1, 100050, 100000),
                       "Mismatch"),
                   Row(<<"7">>, Side(1, 100000, 100000), Side(1, 100200, 100000),
                       "Match")>>),
          summary |-> Summary(2, 1, 1, 0, 0)]
    [] c = "u" ->
         [comparison_results |->
            List(<<Row(Product, Side(2, 100000, 200000), NoSide, "Mismatch"),
                   Row(ProductVI, NoSide, Side(2, 100000, 200000), "Mismatch")>>),
          summary |-> Summary(2, 0, 2, 1, 1)]
    [] c = "k" ->
         [format |-> "markdown_table",
          comparison_table |->
            <<"|", "a", "\n", "|", "-", "-", "-", "\n", "|", "a", "\n", "|", "a">>]
    [] c = "l" ->
         [comparison_summary |->
            [items_with_discrepancies |-> Num(1), total_items_compared |-> Num(2),
             overall_status |-> "FAIL"],
          line_item_comparison |-> List(<<[overall_item_status |-> "FAIL"]>>)]

ReportTexts == {<<"{", c, "}">> : c \in {"m", "s", "t", "u", "k", "l"}}

\* the normalized documents of an invoice and of a purchase order for the
\* same product, numbered "VI-3423" on the one and "3423" on the other
ProductItem(product_number) ==
  [product_number |-> Text(product_number), units |-> Num(2), unit_price |-> Num(100000),
   tax_rate |-> Num(0), tax_amount |-> Num(0), total_value |-> Num(200000)]

ProductTexts == {<<"{", "i", "}">>, <<"{", "p", "}">>}

ParsedProduct(text) ==
  CASE text = <<"{", "i", "}">> ->
         Payload(<<[invoice_id |-> Str, line_items |-> List(<<ProductItem(ProductVI)>>)]>>)
    [] text = <<"{", "p", "}">> ->
         Payload(<<[invoice_id |-> Str, line_items |-> List(<<ProductItem(Product)>>)]>>)

\* texts of other JSON values: a comparison report without rows ("c" stands
\* for its content), a number, null, an array
OtherJsonTexts == {<<"{", "c", "}">>, <<"7">>, <<"n", "u", "l", "l">>, <<"[", "]">>}

ParsedOther(text) ==
  CASE text = <<"{", "c", "}">> -> [comparison_results |-> List(<<>>), summary |-> Str]
    [] text = <<"7">> -> Num(7)
    [] text = <<"n", "u", "l", "l">> -> Null
    [] text = <<"[", "]">> -> List(<<>>)

\* json.loads, lines 260 and 447, on the texts above: the parsed value, or
\* JSONDecodeError
Loads(text) ==
  IF text \in PayloadTexts THEN [kind |-> "json", payload |-> Parsed(text)]
  ELSE IF text \in OtherJsonTexts THEN [kind |-> "json", payload |-> ParsedOther(text)]
  ELSE IF text \in ReportTexts THEN [kind |-> "json", payload |-> Report(text[2])]
  ELSE IF text \in ProductTexts THEN [kind |-> "json", payload |-> ParsedProduct(text)]
  ELSE [kind |-> "malformed"]

\* structure_document_data has stored the bundle and received the text
InitParse ==
  /\ model = GenerativeModel
  /\ document_data = [file_name |-> "f"]
  /\ original_data = document_data
  /\ composition \in Compositions
  /\ response_text = Compose(composition)
  /\ json_text = <<>>
  /\ response = Null
  /\ result = Null
  /\ calls = 0
  /\ trace = <<>>
  /\ PipelineNotStarted
  /\ shown = <<>>
  /\ pc = "idle"

\* _parse_gemini_response, lines 215-292
parse_response_text ==
  /\ pc = "idle"
  /\ pc' = "returned"
  /\ json_text' = JsonText(response_text)
  /\ response' = Loads(json_text')
  /\ result' = _parse_gemini_response(response_text, response', original_data)
  /\ trace' = trace \o ParseStages(response')
  /\ UNCHANGED <<model, original_data, document_data, response_text, composition, calls,
                 pipeline, shown>>

NextParse == parse_response_text

SpecParse == InitParse /\ [][NextParse]_vars

----------------------------------------------------------------------------
(* The two operations of the core, structure_document_data and             *)
(* compare_invoice_vs_po, on the answers of the model.  The outcome of a   *)
(* block of code is the value it returns or the exception it raises.       *)

Return(v) == [raised |-> "", value |-> v]

Raise(e) == [raised |-> e]

ExceptNothing(outcome, handled) == outcome

\* `except Exception as e: return handled`, lines 69-72 and 477-480
ExceptException(outcome, handled) ==
  IF outcome.raised # "" THEN Return(handled) ELSE outcome

ExceptJSONDecodeErrorNever(outcome, handled) == outcome

\* `except json.JSONDecodeError as e: return handled`, lines 462-475
ExceptJSONDecodeError(outcome, handled) ==
  IF outcome.raised = "JSONDecodeError" THEN Return(handled) ELSE outcome

\* a text that is not JSON and is longer than the excerpt of line 284
LongText == [i \in 1..(RawResponseLimit + 1) |-> "a"]

\* the texts the model answers with: payloads, a payload between fences,
\* comparison reports, the documents of one product, a report with prose
\* around it, other JSON values, texts that are not JSON, the empty text
ResponseTexts ==
  {<<"{", "a", "}">>,
   <<"{", "\n", "a", "\n", "}">>,
   FenceJson \o <<"\n", "{", "a", "}", "\n">> \o Fence,
   <<"{", "c", "}">>,
   <<"{", "m", "}">>,
   <<"{", "s", "}">>,
   <<"{", "t", "}">>,
   <<"{", "u", "}">>,
   <<"{", "k", "}">>,
   <<"{", "l", "}">>,
   <<"{", "i", "}">>,
   <<"{", "p", "}">>,
   <<"a", " ", "{", "c", "}", " ", "a">>,
   <<"7">>,
   <<"[", "]">>,
   <<"a">>,
   <<>>,
   LongText}

\* what generate_content and response.text do: raise, or give a text
ModelOutcomes ==
  {[kind |-> "raises"]} \cup {[kind |-> "text", text |-> t] : t \in ResponseTexts}

StoreOriginalDataOnce(stored, data) == IF stored = Null THEN data ELSE stored

\* line 33: self._original_data = document_data, on every call
StoreOriginalData(stored, data) == data

\* structure_document_data, lines 21-72; stored is self._original_data at
\* the call, which the Reconciler reads (lines 303-307) after line 33
StructureDocumentData(mdl, stored, data, outcome) ==
  IF ~Initialized(mdl) THEN Return([error |-> "Gemini API not initialized"])
  ELSE ExceptException(
         IF outcome.kind = "raises" THEN Raise("Exception")
         ELSE Return(_parse_gemini_response(outcome.text, Loads(JsonText(outcome.text)),
                                            StoreOriginalData(stored, data))),
         [error |-> "Failed to process with Gemini: str(e)"])

\* the stages structure_document_data runs, in order
StructureStages(mdl, outcome) ==
  IF ~Initialized(mdl) THEN <<>>
  ELSE <<"generate_content">> \o
       (IF outcome.kind = "raises" THEN <<>> ELSE ParseStages(Loads(JsonText(outcome.text))))

\* str.find(c) and str.rfind(c), from 0, -1 when c does not occur
Find(s, c) ==
  IF \E i \in 1..Len(s) : s[i] = c
  THEN (CHOOSE i \in 1..Len(s) : s[i] = c /\ \A j \in 1..(i - 1) : s[j] # c) - 1
  ELSE -1

RFind(s, c) ==
  IF \E i \in 1..Len(s) : s[i] = c
  THEN (CHOOSE i \in 1..Len(s) : s[i] = c /\ \A j \in (i + 1)..Len(s) : s[j] # c) - 1
  ELSE -1

\* compare_invoice_vs_po, lines 428-443: from response.text to json_text
CompareJsonText(text) ==
  LET stripped == Strip(text)
      start_idx == IF Find(stripped, "{") # -1 THEN Find(stripped, "{") ELSE 0
      end_idx == IF RFind(stripped, "}") # -1 THEN RFind(stripped, "}") + 1 ELSE Len(stripped)
  IN  Strip(SubSeq(stripped, start_idx + 1, end_idx))

TypeOf(x) == IF IsDict(x) THEN "dict" ELSE x.t

\* `key in x` raises TypeError on a number and on None (lines 409, 414, 450)
NotIterable(x) == TypeOf(x) \in {"num", "null"}

\* lines 427-460: the inner try block
CompareParse(text) ==
  LET comparison_data == Loads(CompareJsonText(text))
  IN  IF comparison_data.kind = "malformed" THEN Raise("JSONDecodeError")
      ELSE IF NotIterable(comparison_data.payload) THEN Raise("TypeError")
      ELSE Return([success |-> TRUE, data |-> comparison_data.payload, format |-> "json"])

\* lines 466-475: the fallback of the inner try block
CompareFallback(text) ==
  [success |-> TRUE,
   data |-> [comparison_table |-> Strip(text), format |-> "raw_text"],
   raw_response |-> text]

\* compare_invoice_vs_po, lines 393-480
compare_invoice_vs_po(mdl, invoice_data, po_data, outcome) ==
  IF ~Initialized(mdl) THEN Return([error |-> "Gemini API not initialized"])
  ELSE ExceptException(
         IF NotIterable(invoice_data) \/ NotIterable(po_data) THEN Raise("TypeError")
         ELSE IF outcome.kind = "raises" THEN Raise("Exception")
         ELSE ExceptJSONDecodeError(CompareParse(outcome.text), CompareFallback(outcome.text)),
         [error |-> "Failed to compare documents with Gemini: str(e)"])

\* the stages compare_invoice_vs_po runs, in order
CompareStages(mdl, invoice_data, po_data, outcome) ==
  IF ~Initialized(mdl) \/ NotIterable(invoice_data) \/ NotIterable(po_data) THEN <<>>
  ELSE <<"generate_content">> \o (IF outcome.kind = "raises" THEN <<>> ELSE <<"json.loads">>)

CountOf(seq, e) == Cardinality({i \in 1..Len(seq) : seq[i] = e})

\* one invocation of structure_document_data(data), the model answering
\* with outcome
Structure(data, outcome) ==
  LET out == StructureDocumentData(model, original_data, data, outcome)
      answered == Initialized(model) /\ outcome.kind = "text"
  IN  /\ document_data' = data
      /\ original_data' = IF Initialized(model) THEN StoreOriginalData(original_data, data)
                          ELSE original_data
      /\ response_text' = IF answered THEN outcome.text ELSE <<>>
      /\ json_text' = IF answered THEN JsonText(outcome.text) ELSE <<>>
      /\ response' = IF answered THEN Loads(JsonText(outcome.text)) ELSE Null
      /\ calls' = CountOf(StructureStages(model, outcome), "generate_content")
      /\ trace' = trace \o <<"structure_document_data">> \o StructureStages(model, outcome)
      /\ result' = IF out.raised = "" THEN out.value ELSE Null
      /\ UNCHANGED <<model, composition>>

\* one invocation of compare_invoice_vs_po(invoice_data, po_data), the
\* model answering with outcome
Compare(invoice_data, po_data, outcome) ==
  LET out == compare_invoice_vs_po(model, invoice_data, po_data, outcome)
      stages == CompareStages(model, invoice_data, po_data, outcome)
      answered == stages # <<>> /\ outcome.kind = "text"
  IN  /\ response_text' = IF answered THEN outcome.text ELSE <<>>
      /\ json_text' = IF answered THEN CompareJsonText(outcome.text) ELSE <<>>
      /\ response' = IF answered THEN Loads(CompareJsonText(outcome.text)) ELSE Null
      /\ calls' = CountOf(stages, "generate_content")
      /\ trace' = trace \o <<"compare_invoice_vs_po">> \o stages
      /\ result' = IF out.raised = "" THEN out.value ELSE Null
      /\ UNCHANGED <<model, composition, document_data, original_data>>

----------------------------------------------------------------------------
(* display_comparison_results, comparison_display.py, lines 5-226.  What   *)
(* is rendered is a sequence of elements, each named by its text; a call   *)
(* renders elements until it returns or raises.                            *)

\* dict.get(k, default)
Get(d, k, default) == IF k \in DOMAIN d THEN d[k] ELSE default

\* `k in x` for a mapping or a list of values that are not strings
Contains(x, k) == IsDict(x) /\ k \in DOMAIN x

Rendered(elements) == [raised |-> "", shown |-> elements]

Aborted(e, elements) == [raised |-> e, shown |-> elements]

\* lines 51-62 and 158-169: the summary header
Header(mismatch_count) == IF mismatch_count > 0 THEN "ISSUES FOUND" ELSE "ALL GOOD"

\* lines 29-120: format json with comparison_results
DisplayJson(comparison_data) ==
  LET comparison_results == comparison_data.comparison_results
      title == <<"Invoice vs Purchase Order Comparison">>
  IN  IF comparison_results.t \in {"null", "num"} THEN Aborted("TypeError", title)
      ELSE LET rows == IF comparison_results.t = "list" THEN comparison_results.v ELSE <<>>
               mismatch_count ==
                 Cardinality({i \in 1..Len(rows) :
                                Get(rows[i], "status", Null) = Text("Mismatch")})
           IN  Rendered(title \o <<Header(mismatch_count), "dataframe">> \o
                        (IF mismatch_count > 0 THEN <<"Issues Requiring Attention">>
                         ELSE <<>>))

\* line 142: a line of the table that is not the separator
IsDataRow(line) ==
  (\E i \in 1..Len(line) : line[i] = "|") /\ ~StartsWith(line, <<"|", "-", "-", "-">>)

\* line 145: 'Mismatch' in row ("M" stands for the word)
HasMismatch(row) == \E i \in 1..Len(row) : row[i] = "M"

\* lines 124-174: format markdown_table
DisplayMarkdown(comparison, comparison_data) ==
  LET in_data == Get(comparison_data, "comparison_table", <<>>)
      comparison_table ==
        IF in_data # <<>> THEN in_data ELSE Get(comparison, "comparison_table", <<>>)
      data_rows == SelectSeq(Split(comparison_table), IsDataRow)
      mismatch_count ==
        Cardinality({i \in 3..Len(data_rows) : HasMismatch(data_rows[i])})
  IN  Rendered(<<"Invoice vs Purchase Order Comparison">> \o
               (IF comparison_table # <<>>
                THEN (IF Len(data_rows) > 2 THEN <<Header(mismatch_count)>> ELSE <<>>)
                     \o <<"table">>
                ELSE <<"No comparison data available">>))

\* lines 178-180: format raw_text
DisplayRawText ==
  Rendered(<<"Received response in text format - displaying as-is", "text">>)

\* lines 184-226: any other mapping
DisplayOther(comparison_data) ==
  LET summary == Get(comparison_data, "comparison_summary", <<>>)
      discrepancies == Get(summary, "items_with_discrepancies", Num(0))
      status == Get(summary, "overall_status", "UNKNOWN")
      line_items == Get(comparison_data, "line_item_comparison", List(<<>>)).v
      problem_items ==
        SelectSeq(line_items,
                  LAMBDA item : Get(item, "overall_item_status", "") \in {"FAIL", "WARNING"})
      warning == <<"Received unexpected data format - showing raw data", status>>
  IN  IF ~IsNum(discrepancies) THEN Aborted("TypeError", warning)
      ELSE IF discrepancies.v > 0
      THEN Rendered(warning \o (IF problem_items # <<>> THEN <<"Issues Found">> ELSE <<>>))
      ELSE Rendered(warning \o <<"All items match perfectly!">>)

\* lines 28, 123, 177 and 182: the branch taken; .get on data that is not a
\* mapping raises AttributeError
DisplayBranch(comparison, comparison_data) ==
  LET format == Get(comparison, "format", "None")
  IN  IF format = "json" /\ Contains(comparison_data, "comparison_results")
      THEN DisplayJson(comparison_data)
      ELSE IF ~IsDict(comparison_data) THEN Aborted("AttributeError", <<>>)
      ELSE IF format = "markdown_table"
              \/ Get(comparison_data, "format", "None") = "markdown_table"
      THEN DisplayMarkdown(comparison, comparison_data)
      ELSE IF format = "raw_text" \/ Get(comparison_data, "format", "None") = "raw_text"
      THEN DisplayRawText
      ELSE DisplayOther(comparison_data)

\* lines 5-226
display_comparison_results(comparison) ==
  LET comparison_data == Get(comparison, "data", <<>>)
      branch == DisplayBranch(comparison, comparison_data)
  IN  [raised |-> branch.raised,
       shown |-> <<"DEBUG - Comparison Data Structure", "DEBUG - Format Detection">>
                 \o branch.shown]

----------------------------------------------------------------------------
(* The core called by any caller: the two operations, in any order, on a   *)
(* processor whose construction succeeded or failed.                       *)

MaxInvocations == 2

Operations == {"structure_document_data", "compare_invoice_vs_po"}

Invocations == Cardinality({i \in 1..Len(trace) : trace[i] \in Operations})

\* the bundles structure_document_data is called with
CoreBundles ==
  {[file_name |-> "f"],
   [file_name |-> "f", financial_info |-> Fin(Num(50000), Num(40000), Num(10000))]}

\* the documents compare_invoice_vs_po is called with: normalized payloads,
\* or nothing
CoreDocuments == {[document_type |-> Str], Payload(<<[invoice_id |-> Str]>>), Null}

InitCore ==
  /\ model \in {GenerativeModel, Null}
  /\ original_data = Null
  /\ document_data = Null
  /\ response = Null
  /\ response_text = <<>>
  /\ json_text = <<>>
  /\ composition = Null
  /\ result = Null
  /\ calls = 0
  /\ trace = <<>>
  /\ PipelineNotStarted
  /\ shown = <<>>
  /\ pc = "ready"

StructureCall ==
  /\ pc = "ready"
  /\ Invocations < MaxInvocations
  /\ \E data \in CoreBundles, outcome \in ModelOutcomes : Structure(data, outcome)
  /\ pc' = IF result' = Null THEN "raised" ELSE "ready"
  /\ UNCHANGED <<pipeline, shown>>

CompareCall ==
  /\ pc = "ready"
  /\ Invocations < MaxInvocations
  /\ \E invoice_data \in CoreDocuments, po_data \in CoreDocuments, outcome \in ModelOutcomes :
       Compare(invoice_data, po_data, outcome)
  /\ pc' = IF result' = Null THEN "raised" ELSE "ready"
  /\ UNCHANGED <<pipeline, shown>>

NextCore == StructureCall \/ CompareCall

SpecCore == InitCore /\ [][NextCore]_vars

----------------------------------------------------------------------------
(* The pipeline of app_comparison.py, lines 55-235, once both files are    *)
(* uploaded.                                                               *)

\* what process_document returns (lines 41-52): a bundle, the error mapping
\* of an extractor, or a mapping without any key
Extractions == CoreBundles \cup {[error |-> TRUE, message |-> "m"], <<>>}

ExtractedAnyMapping(x) == "error" \notin DOMAIN x \/ ~x.error

\* lines 66 and 106: `x and not x.get("error")`; an empty mapping is falsy
Extracted(x) == DOMAIN x # {} /\ ("error" \notin DOMAIN x \/ ~x.error)

OkAlways(structured) == TRUE

\* lines 85, 124 and 146: `structured.get("success")`
Ok(structured) == "success" \in DOMAIN structured /\ structured.success

InitPipeline ==
  /\ model = Null
  /\ original_data = Null
  /\ document_data = Null
  /\ response = Null
  /\ response_text = <<>>
  /\ json_text = <<>>
  /\ composition = Null
  /\ result = Null
  /\ calls = 0
  /\ trace = <<>>
  /\ PipelineNotStarted
  /\ shown = <<>>
  /\ pc = "start"

FailureShownNothing(message, failed) == <<>>

\* lines 202-209, 212-219 and 225-232: the message of a stage that returned
\* without success, the error of the result, and its raw_response if any
FailureShown(message, failed) ==
  <<message, Get(failed, "error", "Unknown error")>>
  \o (IF "raw_response" \in DOMAIN failed THEN <<"Raw Response Debug">> ELSE <<>>)

\* lines 56-78 and 234-235
ProcessInvoice ==
  /\ pc = "start"
  /\ \E x \in Extractions :
       /\ invoice_extracted' = x
       /\ pc' = IF Extracted(x) THEN "invoice_extracted" ELSE "stopped"
       /\ shown' = shown \o <<"Both files uploaded successfully!",
                               "Step 1: Processing Invoice...">> \o
                    (IF Extracted(x)
                     THEN <<"Invoice data extracted", "DEBUG - Raw Invoice Extraction">>
                     ELSE <<"Failed to extract invoice data">>)
  /\ trace' = trace \o <<"process_document">>
  /\ UNCHANGED <<model, original_data, document_data, response, response_text, json_text,
                 composition, result, calls, po_extracted, invoice_structured,
                 po_structured, comparison_result>>

\* line 82: GeminiProcessor(), that is __init__, lines 8-19 of
\* gemini_processor.py
NewGeminiProcessor ==
  /\ pc = "invoice_extracted"
  /\ model' \in {GenerativeModel, Null}
  /\ original_data' = Null
  /\ pc' = "processor"
  /\ UNCHANGED <<document_data, response, response_text, json_text, composition, result,
                 calls, trace, pipeline, shown>>

\* lines 83-96 and 224-232
StructureInvoice ==
  /\ pc = "processor"
  /\ \E outcome \in ModelOutcomes : Structure(invoice_extracted, outcome)
  /\ invoice_structured' = result'
  /\ pc' = IF result' = Null THEN "raised"
           ELSE IF Ok(result') THEN "invoice_structured" ELSE "stopped"
  /\ shown' = shown \o
               (IF result' = Null THEN <<>>
                ELSE IF Ok(result')
                THEN <<"Invoice structured by AI", "DEBUG - Structured Invoice Data">>
                ELSE FailureShown("Failed to structure invoice data", result'))
  /\ UNCHANGED <<invoice_extracted, po_extracted, po_structured, comparison_result>>

\* lines 98-118 and 221-222
ProcessPO ==
  /\ pc = "invoice_structured"
  /\ \E x \in Extractions :
       /\ po_extracted' = x
       /\ pc' = IF Extracted(x) THEN "po_extracted" ELSE "stopped"
       /\ shown' = shown \o <<"Step 2: Processing Purchase Order...">> \o
                    (IF Extracted(x)
                     THEN <<"PO data extracted", "DEBUG - Raw PO Extraction">>
                     ELSE <<"Failed to extract PO data">>)
  /\ trace' = trace \o <<"process_document">>
  /\ UNCHANGED <<model, original_data, document_data, response, response_text, json_text,
                 composition, result, calls, invoice_extracted, invoice_structured,
                 po_structured, comparison_result>>

\* lines 122-135 and 211-219
StructurePO ==
  /\ pc = "po_extracted"
  /\ \E outcome \in ModelOutcomes : Structure(po_extracted, outcome)
  /\ po_structured' = result'
  /\ pc' = IF result' = Null THEN "raised"
           ELSE IF Ok(result') THEN "po_structured" ELSE "stopped"
  /\ shown' = shown \o
               (IF result' = Null THEN <<>>
                ELSE IF Ok(result')
                THEN <<"PO structured by AI", "DEBUG - Structured PO Data">>
                ELSE FailureShown("Failed to structure PO data", result'))
  /\ UNCHANGED <<invoice_extracted, po_extracted, invoice_structured, comparison_result>>

\* lines 137-179 and 201-209: invoice_structured["data"] and
\* po_structured["data"] raise KeyError when the key is missing
CompareDocuments ==
  /\ pc = "po_structured"
  /\ IF "data" \in DOMAIN invoice_structured /\ "data" \in DOMAIN po_structured
     THEN /\ \E outcome \in ModelOutcomes :
               Compare(invoice_structured.data, po_structured.data, outcome)
          /\ comparison_result' = result'
          /\ pc' = IF result' = Null THEN "raised"
                   ELSE IF Ok(result') THEN "compared" ELSE "stopped"
          /\ shown' = shown \o <<"Step 3: Comparing Invoice vs Purchase Order...">> \o
                       (IF result' = Null THEN <<>>
                        ELSE IF Ok(result')
                        THEN <<"Comparison completed!", "DEBUG - Comparison Process",
                               "DEBUG - Data Flow to Display">>
                        ELSE FailureShown("Comparison failed", result'))
     ELSE /\ pc' = "raised"
          /\ shown' = shown \o <<"Step 3: Comparing Invoice vs Purchase Order...">>
          /\ UNCHANGED <<model, original_data, document_data, response, response_text,
                         json_text, composition, result, calls, trace, comparison_result>>
  /\ UNCHANGED <<invoice_extracted, po_extracted, invoice_structured, po_structured>>

\* lines 182-199: the display of the comparison, then the debug summary
DisplayComparison ==
  /\ pc = "compared"
  /\ LET displayed == display_comparison_results(comparison_result)
     IN  /\ pc' = IF displayed.raised = "" THEN "done" ELSE "display_raised"
         /\ shown' = shown \o displayed.shown \o
                      (IF displayed.raised = "" THEN <<"Quick Debug Summary">> ELSE <<>>)
  /\ UNCHANGED <<model, original_data, document_data, response, response_text, json_text,
                 composition, result, calls, trace, pipeline>>

NextPipeline ==
  \/ ProcessInvoice
  \/ NewGeminiProcessor
  \/ StructureInvoice
  \/ ProcessPO
  \/ StructurePO
  \/ CompareDocuments
  \/ DisplayComparison

SpecPipeline == InitPipeline /\ [][NextPipeline]_vars

----------------------------------------------------------------------------
(* Properties of the Reconciler (_post_process_financial_data)             *)

Returned == pc = "returned"

Succeeded == Returned /\ "success" \in DOMAIN result /\ result.success

\* the call returned success=true and the payload has a documents list
Reconciled == Succeeded /\ "documents" \in DOMAIN result.data

InDocs == response.payload.documents.v

OutDocs == result.data.documents.v

HasItems(doc) == "line_items" \in DOMAIN doc

\* P(in, out) of every line item of every document, before and after
AllItems(P(_, _)) ==
  \A d \in 1..Len(OutDocs) :
    HasItems(OutDocs[d]) =>
      \A i \in 1..Len(OutDocs[d].line_items.v) :
        P(InDocs[d].line_items.v[i], OutDocs[d].line_items.v[i])

SomeItem(P(_, _)) ==
  \E d \in 1..Len(OutDocs) :
    /\ HasItems(OutDocs[d])
    /\ \E i \in 1..Len(OutDocs[d].line_items.v) :
         P(InDocs[d].line_items.v[i], OutDocs[d].line_items.v[i])

Positive(x) == IsNum(x) /\ x.v > 0

\* the value a money field stands for, null read as 0
ValueOf(x) == IF IsNum(x) THEN x.v ELSE 0

C1_ItemTotal(in, out) ==
  Positive(out.units) /\ Positive(out.unit_price) =>
    out.total_value = Num(Round2(out.units.v * out.unit_price.v + out.tax_amount.v))

\* C1: after reconciliation every line item with units and unit_price
\* present and positive has total_value = round(units*unit_price +
\* tax_amount, 2), whatever total_value the model supplied.
C1_TotalValueRecomputed == Reconciled => AllItems(C1_ItemTotal)

C1_ItemOverridden(in, out) ==
  /\ Positive(out.units) /\ Positive(out.unit_price)
  /\ IsNum(in.total_value) /\ in.total_value # out.total_value
  /\ out.tax_amount.v > 0

C1_Witness == Reconciled /\ SomeItem(C1_ItemOverridden)

C2_ItemRate(in, out) ==
  IsNum(in.tax_rate) => IsNum(out.tax_rate) /\ out.tax_rate.v >= 0 /\ out.tax_rate.v <= Scale

\* C2: after reconciliation the tax_rate of every line item of every
\* document, for every numeric source value, is a decimal fraction in [0,1].
C2_TaxRateIsFraction == Reconciled => AllItems(C2_ItemRate)

\* the tax_rate the claims call normalized: 0 for null or non-positive,
\* divided by 100 above 1
C3_Rate(tax_rate) ==
  IF ~IsNum(tax_rate) \/ tax_rate.v <= 0 THEN 0
  ELSE IF tax_rate.v > Scale THEN tax_rate.v \div 100 ELSE tax_rate.v

C3_ItemTax(in, out) ==
  /\ Positive(in.units) /\ Positive(in.unit_price) =>
       /\ out.tax_rate = Num(C3_Rate(in.tax_rate))
       /\ out.tax_amount =
            Num(Round2(MulFixed(in.units.v * in.unit_price.v, C3_Rate(in.tax_rate))))
  /\ in = ExampleItem =>
       /\ out.tax_rate = Num(1800)
       /\ out.tax_amount = Num(183006000)
       /\ out.total_value = Num(1199706000)

\* C3: for a line item with positive units and unit_price the Reconciler
\* sets tax_rate = r and tax_amount = round(units*unit_price*r, 2), r the
\* normalized source tax_rate (0 for a null or non-positive one); units=30,
\* unit_price=3389, tax_rate=18 gives 0.18, 18300.60 and 119970.60.
C3_TaxAmount == Reconciled => AllItems(C3_ItemTax)

C3_ItemIsExample(in, out) == in = ExampleItem /\ out.tax_amount = Num(183006000)

C3_Witness == Reconciled /\ SomeItem(C3_ItemIsExample)

----------------------------------------------------------------------------
(* Properties of document_totals                                           *)

RECURSIVE SumOver(_, _, _)
SumOver(F(_), items, n) == IF n = 0 THEN 0 ELSE SumOver(F, items, n - 1) + F(items[n])

\* units*unit_price of a source line item counted by the Reconciler
CountedSubtotal(in) ==
  IF Positive(in.units) /\ Positive(in.unit_price) THEN in.units.v * in.unit_price.v ELSE 0

\* units*unit_price*r of such an item, not rounded
CountedTax(in) == MulFixed(CountedSubtotal(in), C3_Rate(in.tax_rate))

\* the recomputed sum calculated_subtotal + calculated_tax_total of
\* document d of the payload
Recomputed(d) ==
  LET items == InDocs[d].line_items.v
  IN  SumOver(CountedSubtotal, items, Len(items)) + SumOver(CountedTax, items, Len(items))

FinancialInfo == IF "financial_info" \in DOMAIN document_data
                 THEN document_data.financial_info ELSE <<>>

\* financial_info[key].amount is given (possibly as 0)
Given(key) == key \in DOMAIN FinancialInfo /\ "amount" \in DOMAIN FinancialInfo[key]

\* every document of the result that had line_items
AllDocs(P(_)) == \A d \in 1..Len(OutDocs) : HasItems(OutDocs[d]) => P(d)

SomeDoc(P(_)) == \E d \in 1..Len(OutDocs) : HasItems(OutDocs[d]) /\ P(d)

Totals(d) == OutDocs[d].document_totals

C4_DocAsClaimed(d) ==
  Totals(d).original_data_used <=>
    (Given("total") /\ Abs(FinancialInfo.total.amount.v - Recomputed(d)) > Scale)

\* C4 (as claimed): original_data_used is true iff financial_info.total.amount
\* is given and differs from the recomputed sum by more than 1, a given total
\* of 0 included.
C4_FlagIffTotalDiffers == Reconciled => AllDocs(C4_DocAsClaimed)

C4_Doc(d) ==
  Totals(d).original_data_used <=>
    /\ Given("total")
    /\ FinancialInfo.total.amount.v # 0
    /\ Abs(FinancialInfo.total.amount.v - Recomputed(d)) > Scale

\* C4 (amended): for every document with line_items, original_data_used is
\* true iff financial_info.total.amount is given, is not 0, and differs from
\* the recomputed sum by more than 1.
C4_FlagIffNonZeroTotalDiffers == Reconciled => AllDocs(C4_Doc)

\* both sides of the threshold: one document off by exactly 1 (flag false),
\* another off by more (flag true)
C4_DocAtThreshold(d) ==
  /\ Given("total") /\ Abs(FinancialInfo.total.amount.v - Recomputed(d)) = Scale
  /\ ~Totals(d).original_data_used

C4_DocAbove(d) == Totals(d).original_data_used

C4_Witness == Reconciled /\ SomeDoc(C4_DocAtThreshold) /\ SomeDoc(C4_DocAbove)

\* the calculated figures of document d
C5_Calculated(d) ==
  LET items == InDocs[d].line_items.v
      sub == SumOver(CountedSubtotal, items, Len(items))
      tax == SumOver(CountedTax, items, Len(items))
  IN  [subtotal |-> Num(sub), tax_total |-> Num(tax), total |-> Num(sub + tax)]

C5_DocAsClaimed(d) ==
  IF Totals(d).original_data_used
  THEN /\ Totals(d).total = FinancialInfo.total.amount
       /\ Given("subtotal") => Totals(d).subtotal = FinancialInfo.subtotal.amount
       /\ Given("total_tax") => Totals(d).tax_total = FinancialInfo.total_tax.amount
  ELSE /\ Totals(d).subtotal = C5_Calculated(d).subtotal
       /\ Totals(d).tax_total = C5_Calculated(d).tax_total
       /\ Totals(d).total = C5_Calculated(d).total

\* C5 (as claimed): when original_data_used is true, document_totals holds
\* financial_info's total, subtotal and total_tax amounts (where given); when
\* false, the calculated figures.
C5_AuthoritativeFigures == Reconciled => AllDocs(C5_DocAsClaimed)

\* the figure recorded for key when the original data is used
C5_Figure(key, calculated) ==
  IF Given(key) /\ FinancialInfo[key].amount.v # 0
  THEN FinancialInfo[key].amount ELSE calculated

C5_Doc(d) ==
  IF Totals(d).original_data_used
  THEN /\ Totals(d).total = FinancialInfo.total.amount
       /\ Totals(d).subtotal = C5_Figure("subtotal", C5_Calculated(d).subtotal)
       /\ Totals(d).tax_total = C5_Figure("total_tax", C5_Calculated(d).tax_total)
  ELSE /\ Totals(d).subtotal = C5_Calculated(d).subtotal
       /\ Totals(d).tax_total = C5_Calculated(d).tax_total
       /\ Totals(d).total = C5_Calculated(d).total

\* C5 (amended): when original_data_used is true, total is
\* financial_info.total.amount, and subtotal and tax_total are the amounts of
\* financial_info.subtotal and financial_info.total_tax where these are given
\* and not 0, the calculated figure otherwise; when false, all three are the
\* calculated figures.
C5_FiguresRecorded == Reconciled => AllDocs(C5_Doc)

C5_DocAuthoritative(d) ==
  /\ Totals(d).original_data_used
  /\ Given("subtotal") /\ Given("total_tax")
  /\ Totals(d).subtotal = FinancialInfo.subtotal.amount
  /\ Totals(d).tax_total = FinancialInfo.total_tax.amount
  /\ Totals(d).subtotal # Totals(d).tax_total
  /\ Recomputed(d) > 0

C5_DocFallback(d) ==
  /\ Totals(d).original_data_used
  /\ Given("subtotal") /\ FinancialInfo.subtotal.amount.v = 0
  /\ Totals(d).subtotal.v > 0

C5_Witness == Reconciled /\ SomeDoc(C5_DocAuthoritative)

C5_FallbackWitness == Reconciled /\ SomeDoc(C5_DocFallback)

\* units*unit_price of a line item, a null factor read as 0
C6_Product(item) == ValueOf(item.units) * ValueOf(item.unit_price)

\* the tax_amount field of a line item, null read as 0
C6_TaxField(item) == ValueOf(item.tax_amount)

C6_DocAsClaimed(d) ==
  ~Totals(d).original_data_used =>
    LET in == InDocs[d].line_items.v
        out == OutDocs[d].line_items.v
    IN  /\ Totals(d).subtotal = Num(SumOver(C6_Product, in, Len(in)))
        /\ Totals(d).tax_total = Num(SumOver(C6_TaxField, out, Len(out)))

\* C6 (as claimed): when original_data_used is false, document_totals.subtotal
\* is the sum of units*unit_price and document_totals.tax_total the sum of
\* the reconciled tax_amount fields over all line items of that document.
C6_TotalsAreFieldSums == Reconciled => AllDocs(C6_DocAsClaimed)

C6_Doc(d) ==
  ~Totals(d).original_data_used =>
    LET in == InDocs[d].line_items.v
    IN  /\ Totals(d).subtotal = Num(SumOver(CountedSubtotal, in, Len(in)))
        /\ Totals(d).tax_total = Num(SumOver(CountedTax, in, Len(in)))

\* C6 (amended): when original_data_used is false, document_totals.subtotal
\* is the sum of units*unit_price, and document_totals.tax_total the sum of
\* the unrounded units*unit_price*r, over the line items of that document
\* whose units and unit_price are both positive, and over no other item.
C6_TotalsAccumulated == Reconciled => AllDocs(C6_Doc)

\* a document of two taxed items beside another document with its own sums
C6_DocOfTwo(d) ==
  /\ ~Totals(d).original_data_used
  /\ Len(InDocs[d].line_items.v) >= 2
  /\ \A i \in 1..2 : CountedTax(InDocs[d].line_items.v[i]) > 0
  /\ \E e \in 1..Len(OutDocs) :
       /\ e # d /\ HasItems(OutDocs[e])
       /\ Totals(e).subtotal.v > 0
       /\ Totals(e).subtotal # Totals(d).subtotal

C6_Witness == Reconciled /\ Len(OutDocs) >= 2 /\ SomeDoc(C6_DocOfTwo)

----------------------------------------------------------------------------
(* Line items the Reconciler skips, and faults                             *)

IsZero(x) == IsNum(x) /\ x.v = 0

\* units or unit_price is null, zero or negative
NotBillable(item) ==
  \/ item.units = Null \/ (IsNum(item.units) /\ item.units.v <= 0)
  \/ item.unit_price = Null \/ (IsNum(item.unit_price) /\ item.unit_price.v <= 0)

\* the response parsed to an object whose documents, line items, units,
\* unit_price and tax_rate are of the declared types (or null numbers)
NumberOrNull(x) == x = Null \/ IsNum(x)

WellTypedItem(item) ==
  NumberOrNull(item.units) /\ NumberOrNull(item.unit_price) /\ NumberOrNull(item.tax_rate)

WellTypedDoc(doc) ==
  HasItems(doc) =>
    /\ doc.line_items.t = "list"
    /\ \A i \in 1..Len(doc.line_items.v) : WellTypedItem(doc.line_items.v[i])

WellTyped ==
  /\ Returned /\ response # Null /\ response.kind = "json"
  /\ IsDict(response.payload)
  /\ "documents" \in DOMAIN response.payload =>
       /\ response.payload.documents.t = "list"
       /\ \A d \in 1..Len(InDocs) : WellTypedDoc(InDocs[d])

\* a result mapping, not an exception
IsResult == "success" \in DOMAIN result \/ "error" \in DOMAIN result

C7_ItemAsClaimed(in, out) ==
  IsZero(in.units) => out.tax_amount = Num(0) /\ out.total_value = in.total_value

C7_Item(in, out) ==
  IsZero(in.units) => out.tax_amount = in.tax_amount /\ out.total_value = in.total_value

C7_ItemZeroUnits(in, out) ==
  IsZero(in.units) /\ Positive(in.unit_price) /\ Positive(in.tax_amount) /\ out = in

C8_ItemAsClaimed(in, out) ==
  NotBillable(in) => out.tax_amount = Num(0) /\ out.total_value = Num(0)

C8_Item(in, out) == NotBillable(in) => out = in

C8_ItemSkipped(in, out) ==
  /\ Positive(in.units) /\ in.unit_price = Null
  /\ IsNum(in.total_value) /\ in.total_value.v # 0
  /\ out = in

C8_FaultWitness ==
  /\ Returned /\ response # Null /\ response.kind = "json" /\ ~WellTyped
  /\ "success" \in DOMAIN result /\ ~result.success

\* C9: every document returned with success=true carries a
\* document_totals entry with subtotal, tax_total, total and
\* original_data_used.
C9_EveryDocHasTotals ==
  Reconciled =>
    \A d \in 1..Len(OutDocs) :
      /\ "document_totals" \in DOMAIN OutDocs[d]
      /\ DOMAIN OutDocs[d].document_totals =
           {"subtotal", "tax_total", "total", "original_data_used"}

----------------------------------------------------------------------------
(* Properties of the Sanitizer (_parse_gemini_response)                    *)

\* the response is the payload wrapped in code-fence markers, with blanks
\* and newlines around the fences and around the text as a whole
Fenced ==
  /\ composition # Null
  /\ composition.open \in {Fence, FenceJson}
  /\ composition.close = Fence
  /\ composition.payload \in PayloadTexts

\* C10: when the response text is a well-formed payload p (an object, from
\* its opening to its closing brace) wrapped in code fences (``` or ```json
\* ... ```), with any blanks and newlines around, the text handed to
\* json.loads is exactly p.
C10_FenceStripping == Returned /\ Fenced => json_text = composition.payload

C10_Witness ==
  /\ Returned /\ Fenced
  /\ composition.open = FenceJson
  /\ composition.lead # <<>> /\ composition.trail # <<>>
  /\ composition.gap1 = <<>>
  /\ Len(Split(composition.payload)) > 1
  /\ json_text = composition.payload
  /\ result.success

\* the stripped lines of a text
StrippedLines(text) ==
  LET lines == Split(text) IN [i \in 1..Len(lines) |-> Strip(lines[i])]

\* the response text has no fence marker at either end
NoFence ==
  /\ composition # Null
  /\ ~StartsWith(Strip(response_text), Fence)
  /\ ~EndsWith(Strip(response_text), Fence)

Min(S) == CHOOSE x \in S : \A y \in S : x <= y

Max(S) == CHOOSE x \in S : \A y \in S : x >= y

\* the lines from the first that begins with "{" to the last that ends with
\* "}", both included
C11_Span ==
  LET lines == Split(Strip(response_text))
      opening == {i \in 1..Len(lines) : StartsWith(Strip(lines[i]), <<"{">>)}
      closing == {i \in 1..Len(lines) : EndsWith(Strip(lines[i]), <<"}">>)}
  IN  SubSeq(lines,
             IF opening = {} THEN 1 ELSE Min(opening),
             IF closing = {} THEN Len(lines) ELSE Max(closing))

\* one well-formed object with whole lines of preamble before it, none of
\* which begins with "{", and whole lines of epilogue after it, none of
\* which ends with "}"
C11_Surrounded ==
  /\ NoFence
  /\ composition.payload \in PayloadTexts
  /\ composition.pre = <<>> \/ composition.pre[Len(composition.pre)] = "\n"
  /\ composition.post = <<>> \/ composition.post[1] = "\n"
  /\ \A i \in 1..Len(StrippedLines(composition.pre)) :
       ~StartsWith(StrippedLines(composition.pre)[i], <<"{">>)
  /\ \A i \in 1..Len(StrippedLines(composition.post)) :
       ~EndsWith(StrippedLines(composition.post)[i], <<"}">>)

\* C11: when the response has no fence markers the text parsed is exactly
\* the span of lines from the first line beginning with "{" to the last
\* line ending with "}", preamble lines before it and epilogue lines after
\* it discarded; a response with preamble and epilogue lines around one
\* well-formed object parses to that object.
C11_SpanParsed ==
  /\ Returned /\ NoFence => json_text = Strip(Join(C11_Span))
  /\ Returned /\ C11_Surrounded =>
       /\ json_text = composition.payload
       /\ response = [kind |-> "json", payload |-> Parsed(composition.payload)]
       /\ result.success

C11_Witness ==
  /\ Returned /\ C11_Surrounded
  /\ composition.pre # <<>> /\ composition.post # <<>>
  /\ Len(Split(composition.payload)) > 1
  /\ json_text = composition.payload
  /\ result.success

\* the response text is the serialized text of a payload and nothing else
Clean ==
  /\ composition # Null
  /\ composition.payload \in PayloadTexts
  /\ response_text = composition.payload

C12_ItemKept(in, out) ==
  /\ DOMAIN out = DOMAIN in
  /\ \A k \in DOMAIN in \ {"tax_rate", "tax_amount", "total_value"} : out[k] = in[k]

\* the document is the document of the payload except for the line items'
\* recomputed fields and the document_totals entry
C12_DocKept(in, out) ==
  IF ~HasItems(in) THEN out = in
  ELSE /\ DOMAIN out = DOMAIN in \cup {"document_totals"}
       /\ \A k \in DOMAIN in \ {"line_items", "document_totals"} : out[k] = in[k]
       /\ Len(out.line_items.v) = Len(in.line_items.v)
       /\ \A i \in 1..Len(in.line_items.v) :
            C12_ItemKept(in.line_items.v[i], out.line_items.v[i])

C12_Kept(p, data) ==
  /\ DOMAIN data = DOMAIN p
  /\ \A k \in DOMAIN p \ {"documents"} : data[k] = p[k]
  /\ "documents" \in DOMAIN p =>
       /\ Len(data.documents.v) = Len(p.documents.v)
       /\ \A d \in 1..Len(p.documents.v) : C12_DocKept(p.documents.v[d], data.documents.v[d])

C12_UnchangedWitness ==
  /\ Returned /\ Clean /\ result.success
  /\ "documents" \in DOMAIN result.data
  /\ \E d \in 1..Len(result.data.documents.v) : HasItems(result.data.documents.v[d])
  /\ result.data = Parsed(composition.payload)

\* json.loads raised JSONDecodeError on the sliced text
Malformed == Returned /\ composition # Null /\ response.kind = "malformed"

IsPrefix(s, t) == Len(s) <= Len(t) /\ s = SubSeq(t, 1, Len(s))

\* C13: when the sliced text cannot be parsed the result is a failure
\* (success=false) with the parser's error detail and a raw_response that
\* is a prefix of the raw text of at most 1000 characters, never the full
\* text when it is longer; there is no data field and the Reconciler has
\* not run.
C13_BoundedFailure ==
  Malformed =>
    /\ DOMAIN result = {"success", "error", "raw_response"}
    /\ result.success = FALSE
    /\ result.error = "Invalid JSON response from Gemini: str(e)"
    /\ IsPrefix(result.raw_response, response_text)
    /\ Len(result.raw_response) <= 1000
    /\ Len(response_text) <= 1000 => result.raw_response = response_text
    /\ Len(response_text) > 1000 =>
         Len(result.raw_response) = 1000 /\ result.raw_response # response_text
    /\ \A i \in 1..Len(trace) : trace[i] # "_post_process_financial_data"

C13_Witness ==
  /\ Malformed
  /\ Len(response_text) > 1000
  /\ Len(result.raw_response) = 1000
  /\ response_text[1] \in Whitespace
  /\ result.raw_response[1] = response_text[1]
  /\ trace = <<"json.loads">>

----------------------------------------------------------------------------
(* Properties of the two operations of the core                            *)

\* an operation has been invoked and has returned
Invoked == Invocations > 0 /\ pc # "raised"

\* the operation invoked last
LastOperation ==
  trace[CHOOSE i \in 1..Len(trace) :
          trace[i] \in Operations /\ \A j \in (i + 1)..Len(trace) : trace[j] \notin Operations]

\* the model answered the last invocation with a text json.loads rejected
MalformedResponse == Invoked /\ "kind" \in DOMAIN response /\ response.kind = "malformed"

IsSuccess(r) == "success" \in DOMAIN r /\ r.success = TRUE

\* C14 as claimed: on a malformed model response the caller receives a
\* non-empty result holding the parsed JSON or the raw text as data, never
\* a failure with no data, from structure_document_data as well as from
\* compare_invoice_vs_po.
C14_NeverFailureWithoutData ==
  MalformedResponse => IsSuccess(result) /\ "data" \in DOMAIN result

\* C14: on a malformed model response the caller receives a non-empty
\* result: from compare_invoice_vs_po success=true with the raw text of
\* the model (stripped) as data, from structure_document_data a failure
\* (success=false, no data) with the error and the first 1000 characters
\* of the raw text.
C14_RawTextOrTypedFailure ==
  MalformedResponse =>
    /\ LastOperation = "compare_invoice_vs_po" =>
         /\ IsSuccess(result)
         /\ result.data = [comparison_table |-> Strip(response_text), format |-> "raw_text"]
    /\ LastOperation = "structure_document_data" =>
         /\ DOMAIN result = {"success", "error", "raw_response"}
         /\ result.success = FALSE
         /\ IsPrefix(result.raw_response, response_text)
         /\ Len(result.raw_response) = IF Len(response_text) < 1000 THEN Len(response_text)
                                       ELSE 1000

C14_Witness ==
  /\ MalformedResponse
  /\ LastOperation = "compare_invoice_vs_po"
  /\ IsSuccess(result)
  /\ result.data.comparison_table = <<"a">>

C14_FailureWitness ==
  /\ MalformedResponse
  /\ LastOperation = "structure_document_data"
  /\ result.success = FALSE
  /\ result.raw_response = <<"a">>

\* C15: in every result of structure_document_data and of
\* compare_invoice_vs_po the raw_response field, when present, holds at
\* most the first 1000 characters of the response of the model.
C15_RawResponseBounded ==
  Invoked /\ "raw_response" \in DOMAIN result =>
    Len(result.raw_response) <= 1000 /\ IsPrefix(result.raw_response, response_text)

\* C16: whatever the model client does (not initialized, raising, any
\* text) the two operations never raise: they return a mapping that has
\* success=true with data or carries an error message.
C16_NeverRaises ==
  /\ pc # "raised"
  /\ Invocations > 0 =>
       \/ IsSuccess(result) /\ "data" \in DOMAIN result
       \/ "error" \in DOMAIN result

C16_Witness ==
  /\ Invoked
  /\ model # Null
  /\ calls = 1
  /\ response = Null
  /\ "error" \in DOMAIN result
  /\ LastOperation = "compare_invoice_vs_po"

\* C17: every result of the two operations has a boolean success field,
\* with data when it is true and with error when it is false, on every
\* return path.
C17_SuccessAlwaysPresent ==
  Invoked =>
    /\ "success" \in DOMAIN result
    /\ result.success \in BOOLEAN
    /\ result.success => "data" \in DOMAIN result
    /\ ~result.success => "error" \in DOMAIN result

\* C18: every successful comparison result carries, at the same place of
\* the result, the discriminator format: json when data is the parsed
\* comparison, raw_text when data holds the text of the model.
C18_FormatAtOnePlace ==
  Invoked /\ LastOperation = "compare_invoice_vs_po" /\ IsSuccess(result) =>
    /\ "format" \in DOMAIN result
    /\ result.format \in {"json", "raw_text"}
    /\ result.format = "json" <=> response.kind = "json"

\* C19: an invocation of either operation calls the model at most once,
\* and not at all when the model client failed to initialize, in which
\* case it returns a failure.
C19_AtMostOneCall ==
  Invocations > 0 =>
    /\ calls <= 1
    /\ CountOf(trace, "generate_content") <= Invocations
    /\ model = Null =>
         /\ calls = 0
         /\ CountOf(trace, "generate_content") = 0
         /\ pc # "raised" /\ "error" \in DOMAIN result /\ ~IsSuccess(result)

C19_Witness ==
  /\ Invocations >= 2
  /\ model = Null
  /\ calls = 0
  /\ result = [error |-> "Gemini API not initialized"]

C19_CallWitness ==
  /\ Invocations >= 2
  /\ calls = 1
  /\ CountOf(trace, "generate_content") = 2

----------------------------------------------------------------------------
(* Properties of the pipeline (app_comparison.py)                          *)

\* the stage that ran just before stage i of the trace
C20_Before(i) == IF i > 1 THEN trace[i - 1] ELSE "nothing"

\* the stages of one document come in the order extraction, model call,
\* sanitizing, reconciliation, and the next document starts after them
C20_StagesInOrder ==
  \A i \in 1..Len(trace) :
    /\ trace[i] = "process_document" =>
         C20_Before(i) \in {"nothing", "_post_process_financial_data"}
    /\ trace[i] = "structure_document_data" => C20_Before(i) = "process_document"
    /\ trace[i] = "generate_content" => C20_Before(i) \in Operations
    /\ trace[i] = "json.loads" => C20_Before(i) = "generate_content"
    /\ trace[i] = "_post_process_financial_data" => C20_Before(i) = "json.loads"
    /\ trace[i] = "compare_invoice_vs_po" =>
         /\ C20_Before(i) = "_post_process_financial_data"
         /\ CountOf(SubSeq(trace, 1, i - 1), "process_document") = 2
         /\ CountOf(SubSeq(trace, 1, i - 1), "_post_process_financial_data") = 2

\* the comparison stage is about to start, or has started
C20_Comparing == pc = "po_structured" \/ CountOf(trace, "compare_invoice_vs_po") > 0

\* C20: in every run of the pipeline each document passes extraction, then
\* the model call, then sanitizing and reconciliation, in that order, and
\* compare_invoice_vs_po starts only after both the invoice and the
\* purchase order have been normalized successfully: it is never invoked
\* with a failed or missing normalized document.
C20_PipelineOrdering ==
  /\ C20_StagesInOrder
  /\ pc # "raised"
  /\ C20_Comparing =>
       /\ IsSuccess(invoice_structured) /\ "data" \in DOMAIN invoice_structured
       /\ IsSuccess(po_structured) /\ "data" \in DOMAIN po_structured
       /\ IsDict(invoice_structured.data) /\ IsDict(po_structured.data)

C20_Witness ==
  /\ pc = "done"
  /\ IsSuccess(comparison_result)
  /\ "format" \in DOMAIN comparison_result /\ comparison_result.format = "json"
  /\ "financial_info" \in DOMAIN po_extracted
  /\ trace = <<"process_document", "structure_document_data", "generate_content",
               "json.loads", "_post_process_financial_data",
               "process_document", "structure_document_data", "generate_content",
               "json.loads", "_post_process_financial_data",
               "compare_invoice_vs_po", "generate_content", "json.loads">>

----------------------------------------------------------------------------
(* The frame of the Reconciler                                             *)

RecomputedFields == {"tax_rate", "tax_amount", "total_value"}

\* the line item keeps every field but the recomputed ones; a line item that
\* is skipped keeps all of them
C27_ItemFrame(in, out) ==
  /\ DOMAIN in \subseteq DOMAIN out
  /\ DOMAIN out \subseteq DOMAIN in \cup RecomputedFields
  /\ \A k \in DOMAIN in \ RecomputedFields : out[k] = in[k]
  /\ NotBillable(in) => out = in

\* the document keeps its line items in number and order and every field
\* but document_totals
C27_DocFrame(in, out) ==
  /\ DOMAIN in \subseteq DOMAIN out
  /\ DOMAIN out \subseteq DOMAIN in \cup {"document_totals"}
  /\ \A k \in DOMAIN in \ {"line_items", "document_totals"} : out[k] = in[k]
  /\ HasItems(in) =>
       /\ Len(out.line_items.v) = Len(in.line_items.v)
       /\ \A i \in 1..Len(in.line_items.v) :
            C27_ItemFrame(in.line_items.v[i], out.line_items.v[i])

C27_PayloadFrame(in, out) ==
  /\ DOMAIN out = DOMAIN in
  /\ \A k \in DOMAIN in \ {"documents"} : out[k] = in[k]
  /\ "documents" \in DOMAIN in =>
       /\ Len(out.documents.v) = Len(in.documents.v)
       /\ \A d \in 1..Len(in.documents.v) :
            C27_DocFrame(in.documents.v[d], out.documents.v[d])

\* C27: the Reconciler never adds, removes or reorders documents or line
\* items, changes no line-item field other than tax_rate, tax_amount and
\* total_value, changes no document field other than document_totals, and
\* leaves every line item whose units or unit_price is null or non-positive
\* completely unchanged.
C27_Frame == Succeeded => C27_PayloadFrame(response.payload, result.data)

\* two documents, the second with a recomputed and a skipped line item
C27_Witness ==
  /\ Reconciled /\ Len(OutDocs) = 2 /\ HasItems(OutDocs[2])
  /\ Len(OutDocs[2].line_items.v) = 2
  /\ OutDocs[2].line_items.v[1] # InDocs[2].line_items.v[1]
  /\ NotBillable(InDocs[2].line_items.v[2])
  /\ OutDocs[2].line_items.v[2] = InDocs[2].line_items.v[2]

----------------------------------------------------------------------------
(* The Reconciler applied to its own output                                *)

\* C28: the Reconciler is idempotent: for every payload and every fixed
\* originating bundle, applying _post_process_financial_data to its own
\* output yields the same payload as applying it once.
C28_Idempotent ==
  Reconciled => _post_process_financial_data(result.data, original_data) = result.data

\* a billable line item whose tax_rate is above 100 (percent)
C28_RateAbove100(in, out) ==
  Billable(ItemGet(in, "units").v, ItemGet(in, "unit_price").v)
  /\ IsNum(in.tax_rate) /\ in.tax_rate.v > 100 * Scale

\* the same, for the payloads in which no billable line item has a tax_rate
\* above 100
C28_IdempotentBelow100 ==
  Reconciled /\ ~SomeItem(C28_RateAbove100) =>
    _post_process_financial_data(result.data, original_data) = result.data

----------------------------------------------------------------------------
(* The bundle the Reconciler reads                                         *)

\* the last stage was a normalization that returned success=true
Structured ==
  /\ Invoked /\ LastOperation = "structure_document_data"
  /\ IsSuccess(result)

\* C22: the authoritative totals used to reconcile the response of a call of
\* structure_document_data are those of the bundle passed to that same call,
\* never those of a bundle passed to an earlier call on the same processor.
C22_OwnBundle ==
  Structured =>
    /\ original_data = document_data
    /\ result.data = _post_process_financial_data(response.payload, document_data)

\* the purchase order was normalized after an invoice whose bundle has other
\* totals, and the invoice's totals would have given another document_totals
C22_Witness ==
  /\ pc = "po_structured" /\ IsSuccess(po_structured)
  /\ IsSuccess(invoice_structured)
  /\ document_data = po_extracted
  /\ po_extracted # invoice_extracted
  /\ po_structured.data
       # _post_process_financial_data(response.payload, invoice_extracted)

----------------------------------------------------------------------------
(* Properties of the comparison report                                     *)

\* the last invocation was a comparison that returned success=true with
\* format json
ComparedJson ==
  /\ Invoked /\ LastOperation = "compare_invoice_vs_po"
  /\ IsSuccess(result)
  /\ "format" \in DOMAIN result /\ result.format = "json"

\* the report has a list of rows and a summary with the five counters
HasRows(data) ==
  /\ IsDict(data) /\ "comparison_results" \in DOMAIN data
  /\ data.comparison_results.t = "list"

SummaryCounters ==
  {"total_items", "matched_items", "mismatched_items", "po_only_items",
   "invoice_only_items"}

HasSummary(data) ==
  /\ IsDict(data) /\ "summary" \in DOMAIN data
  /\ IsDict(data.summary) /\ SummaryCounters \subseteq DOMAIN data.summary
  /\ \A k \in SummaryCounters : IsNum(data.summary[k])

PoMissing(row) ==
  row.po_units = Null /\ row.po_unit_price = Null /\ row.po_total_value = Null

InvoiceMissing(row) ==
  /\ row.invoice_units = Null /\ row.invoice_unit_price = Null
  /\ row.invoice_total_value = Null

Tally(rows, P(_)) == Cardinality({i \in 1..Len(rows) : P(rows[i])})

IsMatch(row) == row.status = Text("Match")

IsMismatch(row) == row.status = Text("Mismatch")

OneSided(row) == PoMissing(row) # InvoiceMissing(row)

C23_Consistent(rows, summary) ==
  /\ summary.total_items.v = summary.matched_items.v + summary.mismatched_items.v
  /\ summary.po_only_items.v + summary.invoice_only_items.v = Tally(rows, OneSided)
  /\ summary.total_items.v = Len(rows)
  /\ summary.matched_items.v = Tally(rows, IsMatch)
  /\ summary.mismatched_items.v = Tally(rows, IsMismatch)
  /\ summary.po_only_items.v = Tally(rows, InvoiceMissing)
  /\ summary.invoice_only_items.v = Tally(rows, PoMissing)

\* a report that has rows and counters, for which the question arises
C23_Report ==
  ComparedJson /\ HasRows(result.data) /\ HasSummary(result.data)

\* C23: for every ComparisonResult returned with success=true and format
\* json (that has rows and a summary), summary.total_items =
\* summary.matched_items + summary.mismatched_items,
\* summary.po_only_items + summary.invoice_only_items is the number of rows
\* with one side null, and the counters are those obtained by tallying the
\* rows.
C23_SummaryConsistent ==
  C23_Report => C23_Consistent(result.data.comparison_results.v, result.data.summary)

\* 0.01, the tolerance of the prompt (line 546)
Tolerance == Scale \div 100

\* a and b are both null, or numbers at most 0.01 apart
WithinTolerance(a, b) ==
  \/ a = Null /\ b = Null
  \/ IsNum(a) /\ IsNum(b) /\ Abs(a.v - b.v) <= Tolerance

\* units are whole numbers: they are within 0.01 exactly when they are equal
FieldsEqual(row) ==
  /\ row.po_units = row.invoice_units
  /\ WithinTolerance(row.po_unit_price, row.invoice_unit_price)
  /\ WithinTolerance(row.po_total_value, row.invoice_total_value)

Paired(row) == ~PoMissing(row) /\ ~InvoiceMissing(row)

C24_RowStatus(row) ==
  Paired(row) => row.status = (IF FieldsEqual(row) THEN Text("Match") ELSE Text("Mismatch"))

\* C24: for every paired row of a ComparisonResult, numeric fields are equal
\* when abs(a-b) <= 0.01, and the status is Match when all compared fields are
\* equal (or both null) and Mismatch otherwise: a unit_price delta of 0.005
\* alone gives Match, a delta of 0.02 Mismatch.
C24_ToleranceEquality ==
  ComparedJson /\ HasRows(result.data) =>
    \A i \in 1..Len(result.data.comparison_results.v) :
      C24_RowStatus(result.data.comparison_results.v[i])

IsDigit(c) == c \in {"0", "1", "2", "3", "4", "5", "6", "7", "8", "9"}

\* the numeric part of a product number (prompt, line 493)
NumericPart(product_number) == SelectSeq(product_number, IsDigit)

\* the line items of a normalized document that carry a product number
LineItems(data) ==
  IF IsDict(data) /\ "documents" \in DOMAIN data
  THEN UNION {{data.documents.v[d].line_items.v[i] :
                 i \in 1..Len(data.documents.v[d].line_items.v)} :
              d \in {d \in 1..Len(data.documents.v) : HasItems(data.documents.v[d])}}
  ELSE {}

Keys(data) ==
  {NumericPart(item.product_number.v) :
     item \in {it \in LineItems(data) : "v" \in DOMAIN it.product_number}}

\* the pipeline has compared the two documents and holds a report with rows
Reported ==
  /\ comparison_result # Null /\ IsSuccess(comparison_result)
  /\ "format" \in DOMAIN comparison_result /\ comparison_result.format = "json"
  /\ HasRows(comparison_result.data)

RowsOf(key) ==
  {i \in 1..Len(comparison_result.data.comparison_results.v) :
     NumericPart(comparison_result.data.comparison_results.v[i].product_number.v) = key}

\* C25: two line items whose product_number values have the same numeric
\* substring ("VI-3423" on the invoice, "3423" on the purchase order) are
\* paired in one row of the ComparisonResult, not reported as two
\* unmatched rows.
C25_KeysPaired ==
  Reported =>
    \A key \in Keys(invoice_structured.data) \cap Keys(po_structured.data) :
      /\ Cardinality(RowsOf(key)) = 1
      /\ \A i \in RowsOf(key) : Paired(comparison_result.data.comparison_results.v[i])

----------------------------------------------------------------------------
(* The boundary between the extractors and the core                        *)

\* the bundle is a mapping lacking error:true
LacksError(x) == "error" \notin DOMAIN x \/ x.error # TRUE

\* the pipeline stopped at the extraction of the invoice, of the purchase
\* order
InvoiceRejected == pc = "stopped" /\ invoice_structured = Null

PORejected == pc = "stopped" /\ po_extracted # Null /\ po_structured = Null

\* the bundles structure_document_data has been called with so far
Forwarded ==
  (IF invoice_structured # Null \/ pc = "invoice_structured" \/
      (pc = "raised" /\ po_extracted = Null /\ CountOf(trace, "structure_document_data") = 1)
   THEN {invoice_extracted} ELSE {})
  \cup (IF CountOf(trace, "structure_document_data") = 2 THEN {po_extracted} ELSE {})

----------------------------------------------------------------------------
(* Properties of what the page shows                                       *)

Shows(element) == \E i \in 1..Len(shown) : shown[i] = element

\* display_comparison_results has been called
Displayed == Shows("DEBUG - Comparison Data Structure")

\* the page says that the items match
CleanOutcome == Shows("ALL GOOD") \/ Shows("All items match perfectly!")

\* the result has format json and rows, none of them with status Mismatch
NoMismatch(comparison) ==
  /\ "format" \in DOMAIN comparison /\ comparison.format = "json"
  /\ HasRows(comparison.data)
  /\ \A i \in 1..Len(comparison.data.comparison_results.v) :
       ~IsMismatch(comparison.data.comparison_results.v[i])

\* C29: display_comparison_results shows a clean outcome ('ALL GOOD' / 'All
\* items match perfectly') only when the result has format json, contains
\* comparison_results, and no row has status Mismatch; for every other
\* successful result it shows the data or a warning without asserting that
\* the items match.
C29_CleanOnlyWithoutMismatch ==
  Displayed /\ CleanOutcome => NoMismatch(comparison_result)

\* the run of the script is over
Terminal == pc \in {"done", "stopped", "display_raised", "raised"}

\* the failure messages of the five stages (lines 202, 212, 222, 225, 235)
FailureMessages ==
  {"Failed to extract invoice data", "Failed to structure invoice data",
   "Failed to extract PO data", "Failed to structure PO data", "Comparison failed"}

Failures == Cardinality({i \in 1..Len(shown) : shown[i] \in FailureMessages})

C30_Outcome ==
  /\ Failures <= 1
  /\ ~(Displayed /\ Failures = 1)
  /\ Terminal <=> (Displayed \/ Failures = 1)
  /\ CountOf(shown, "DEBUG - Comparison Data Structure") <= 1

C30_Calls ==
  /\ CountOf(trace, "generate_content") <= 3
  /\ CountOf(trace, "structure_document_data") = 2 => IsSuccess(invoice_structured)
  /\ CountOf(trace, "structure_document_data") <= 2
  /\ CountOf(trace, "compare_invoice_vs_po") <= 1

\* how far the script has come: every stage moves it forward, and at most
\* seven stages run
Rank(at) ==
  CASE at = "start" -> 0
    [] at = "invoice_extracted" -> 1
    [] at = "processor" -> 2
    [] at = "invoice_structured" -> 3
    [] at = "po_extracted" -> 4
    [] at = "po_structured" -> 5
    [] at = "compared" -> 6
    [] OTHER -> 7

\* a run that is not over is at a stage of the script, which then runs:
\* every stage is guarded by its place only and has inputs to run on
C30_Progress ==
  ~Terminal =>
    /\ Rank(pc) < 7
    /\ pc \in {"start", "invoice_structured"} => Extractions # {}
    /\ pc \in {"processor", "po_extracted", "po_structured"} => ModelOutcomes # {}

C30_FailureWitness ==
  /\ pc = "stopped" /\ ~Displayed /\ Shows("Failed to structure PO data")
  /\ Failures = 1
  /\ CountOf(trace, "generate_content") = 2

----------------------------------------------------------------------------
(* Cancellation                                                            *)

\* a stage has failed: an extractor returned an error bundle (or nothing), a
\* normalization or the comparison returned without success
InvoiceExtractionFailed == invoice_extracted # Null /\ ~Extracted(invoice_extracted)

InvoiceStructuringFailed == invoice_structured # Null /\ ~IsSuccess(invoice_structured)

POExtractionFailed == po_extracted # Null /\ ~Extracted(po_extracted)

POStructuringFailed == po_structured # Null /\ ~IsSuccess(po_structured)

ComparisonFailed == comparison_result # Null /\ ~IsSuccess(comparison_result)

StageFailed ==
  \/ InvoiceExtractionFailed \/ InvoiceStructuringFailed
  \/ POExtractionFailed \/ POStructuringFailed
  \/ ComparisonFailed

\* the message of the stage that failed
FailureMessage ==
  IF InvoiceExtractionFailed THEN "Failed to extract invoice data"
  ELSE IF InvoiceStructuringFailed THEN "Failed to structure invoice data"
  ELSE IF POExtractionFailed THEN "Failed to extract PO data"
  ELSE IF POStructuringFailed THEN "Failed to structure PO data"
  ELSE "Comparison failed"

\* the result of the stage that failed, for the stages that return one
FailedResult ==
  IF InvoiceStructuringFailed THEN invoice_structured
  ELSE IF POStructuringFailed THEN po_structured
  ELSE comparison_result

\* the page ends with the message of the failed stage, followed (but for the
\* extractions, line 222 and 235) by the error and the excerpt of its result
ErrorShownLast ==
  LET tagged == IF InvoiceExtractionFailed \/ POExtractionFailed THEN <<FailureMessage>>
                ELSE FailureShown(FailureMessage, FailedResult)
  IN  /\ Len(shown) >= Len(tagged)
      /\ SubSeq(shown, Len(shown) - Len(tagged) + 1, Len(shown)) = tagged

\* nothing of a later stage exists, and the model was called by the stages
\* that ran only
NothingLater ==
  /\ InvoiceExtractionFailed => invoice_structured = Null /\ model = Null
  /\ InvoiceExtractionFailed \/ InvoiceStructuringFailed => po_extracted = Null
  /\ po_extracted = Null \/ POExtractionFailed => po_structured = Null
  /\ po_structured = Null \/ POStructuringFailed => comparison_result = Null
  /\ CountOf(trace, "generate_content") <=
       Cardinality({k \in 1..3 :
                      <<invoice_structured, po_structured, comparison_result>>[k] # Null})

\* the views of what the stages before the failure produced (lines 70, 89,
\* 110, 128)
EarlierResults ==
  {"DEBUG - Raw Invoice Extraction", "DEBUG - Structured Invoice Data",
   "DEBUG - Raw PO Extraction", "DEBUG - Structured PO Data"}

C21_Cancelled ==
  StageFailed =>
    /\ pc = "stopped"
    /\ NothingLater
    /\ ~Displayed
    /\ Failures = 1 /\ ErrorShownLast

============================================================================
